---- MODULE Spec2Model ----
(***************************************************************************)
(* Monte Carlo spectral-bundle pipelines of aei-grad-school:               *)
(*   bin/model_veg_bundles.py            (the canopy script, PROSAIL)      *)
(*   projects/unsma/spec-soil-bundles.py (the soil script, 6S)             *)
(* Both are run-once scripts: sample parameters, loop over the bundles     *)
(* calling an external model, fill output_array, then write the csv, sli   *)
(* and hdr artifacts.  One behaviour of the model is one run of one        *)
(* script; `script' says which.                                            *)
(*                                                                         *)
(* Numbers.  Floats are fixed-point integers:                              *)
(*   chloro            1 ug/cm^2      (5 .. 75)                            *)
(*   caroten, LAI, N   0.1            (1.5 -> 15, 15 -> 150, 0.1 -> 1)     *)
(*   LMA, EWT          0.0001 g/cm^2  (0.0022 -> 22, 0.0365 -> 365)        *)
(*   reflectance and wavelength (um)  0.0001                               *)
(* Lists are 1-based here, so the Python element x[k] is x[k+1]; the loop  *)
(* variables i and j keep their 0-based Python values.                     *)
(***************************************************************************)
EXTENDS Integers, Sequences, FiniteSets, TLC

(***************************************************************************)
(* Bounds of the model (the scripts set n_bundles = 300 / 25,              *)
(* n_atmospheres = 5, nb = 2101 and list 28 soil files).                   *)
(***************************************************************************)
MaxBundles == 3

MaxAtmospheres == 2

CanopyBands == 5

NumSoilFiles == 2

VARIABLES
    script,            \* "canopy" or "soil"
    pc,                \* position in the script
    error,             \* "" or the exception that ended the run
    n_bundles, n_atmospheres, nb,
    i, j,              \* the module-level loop variables
    gauss,             \* value returned by the latest random.gauss call
    N, chloro, caroten, brown, EWT, LMA, soil_reflectance, LAI, hot_spot,
    LAD_inclination, LAD_bimodality, s_az, s_za, v_az, v_za,
    output_spec,       \* spectra names
    output_array,      \* nb rows, each a sequence of columns (column c at c+1)
    spectrum,          \* canopy: the latest pyprosail.run result
    calls,             \* arguments of the model invocations made so far
    colWrites,         \* how often each column of output_array was assigned
    written,           \* names of the files written, in order
    files,             \* content of each file written, by name
    target_sensor,     \* soil script: the configured sensor name
    num_bands, good_bands,
    soil_spectra,      \* soil script: the sampled soil files, by bundle
    aero_profile_ind, atmos_profile_ind, ground_reflectance_ind,
    aot, solar_a, solar_z, view_a, view_z,
    s,                 \* the SixS object
    wavelengths, results,
    soil_units,        \* soil script: the wavelength unit tag of each soil file
    storedAxes,        \* wavelength axes of the spectra stored in output_array
    bound,             \* classifier script: names bound in the module
    stmt               \* classifier script: number of the next statement

leafVars == <<N, chloro, caroten, brown, EWT, LMA, soil_reflectance, LAI,
              hot_spot, LAD_inclination, LAD_bimodality>>

geoVars == <<s_az, s_za, v_az, v_za>>

cfgVars == <<script, n_bundles, n_atmospheres, target_sensor, soil_units>>

clsVars == <<bound, stmt>>

atmVars == <<aero_profile_ind, atmos_profile_ind, ground_reflectance_ind,
             aot, solar_a, solar_z, view_a, view_z>>

soilVars == <<num_bands, good_bands, soil_spectra, atmVars, s, wavelengths,
              results>>

fileVars == <<written, files>>

vars == <<cfgVars, clsVars, storedAxes, pc, error, nb, i, j, gauss, leafVars,
          geoVars, output_spec, output_array, spectrum, calls, colWrites,
          fileVars, soilVars>>

-----------------------------------------------------------------------------
(* Generic helpers *)

Last(q) == q[Len(q)]

SetLast(q, v) == [q EXCEPT ![Len(q)] = v]

(* np.zeros([rows, cols]) *)
Zeros(rows, cols) == [r \in 1..rows |-> [c \in 1..cols |-> 0]]

(* M[:, c] = v   (c is the 0-based numpy column) *)
SetColumn(M, c, v) == [r \in 1..Len(M) |-> [M[r] EXCEPT ![c + 1] = v[r]]]

(* M[:, c] *)
Column(M, c) == [r \in 1..Len(M) |-> M[r][c + 1]]

-----------------------------------------------------------------------------
(* Canopy script: sampling (model_veg_bundles.py 57-136) *)

GaussDrawsOutside ==
    [chloro  |-> {4, 5, 75, 76},
     caroten |-> {14, 15, 151},
     LMA     |-> {21, 365, 366},
     LAI     |-> {0, 181}]

(* Values random.gauss can return: just outside each interval on both
   sides, and on a bound of it *)
GaussDraws ==
    [chloro  |-> {4, 5, 75, 76},
     caroten |-> {14, 15, 151},
     LMA     |-> {21, 365, 366},
     LAI     |-> {0, 1, 181}]

(* One representative per random.uniform range, two for the solar azimuth *)
UniformDraws ==
    [N |-> {19}, EWT |-> {260}, soil_reflectance |-> {5}, hot_spot |-> {27},
     LAD_inclination |-> {0}, LAD_bimodality |-> {1},
     s_az |-> {0, 180}, s_za |-> {20}]

(* The bounds of the while conditions *)
ValidInterval ==
    [chloro  |-> <<5, 75>>,
     caroten |-> <<15, 150>>,
     LMA     |-> <<22, 365>>,
     LAI     |-> <<1, 180>>]

OutOfRangeNoUpper(p, v) == v < ValidInterval[p][1]

(* while x[-1] < lo or x[-1] > hi *)
OutOfRange(p, v) == v < ValidInterval[p][1] \/ v > ValidInterval[p][2]

(* line 57: for i in range(n_bundles); lines 60-64 *)
SampleN ==
    /\ script = "canopy" /\ pc = "sample"
    /\ \E n \in UniformDraws.N, g \in GaussDraws.chloro :
          /\ N' = Append(N, n)
          /\ chloro' = Append(chloro, g)
          /\ gauss' = g
    /\ pc' = "while_chloro"
    /\ UNCHANGED <<cfgVars, clsVars, storedAxes,
                   error, nb, i, j, caroten, brown, EWT, LMA,
                   soil_reflectance, LAI, hot_spot, LAD_inclination,
                   LAD_bimodality, geoVars, output_spec, output_array,
                   spectrum, calls, colWrites, fileVars, soilVars>>

(* lines 65-66 *)
RedrawChloro ==
    /\ script = "canopy" /\ pc = "while_chloro"
    /\ OutOfRange("chloro", Last(chloro))
    /\ \E g \in GaussDraws.chloro :
          /\ chloro' = SetLast(chloro, g)
          /\ gauss' = g
    /\ UNCHANGED <<cfgVars, clsVars, storedAxes,
                   pc, error, nb, i, j, N, caroten, brown, EWT, LMA,
                   soil_reflectance, LAI, hot_spot, LAD_inclination,
                   LAD_bimodality, geoVars, output_spec, output_array,
                   spectrum, calls, colWrites, fileVars, soilVars>>

(* line 65 false, then line 71 *)
SampleCaroten ==
    /\ script = "canopy" /\ pc = "while_chloro"
    /\ ~OutOfRange("chloro", Last(chloro))
    /\ \E g \in GaussDraws.caroten :
          /\ caroten' = Append(caroten, g)
          /\ gauss' = g
    /\ pc' = "while_caroten"
    /\ UNCHANGED <<cfgVars, clsVars, storedAxes,
                   error, nb, i, j, N, chloro, brown, EWT, LMA,
                   soil_reflectance, LAI, hot_spot, LAD_inclination,
                   LAD_bimodality, geoVars, output_spec, output_array,
                   spectrum, calls, colWrites, fileVars, soilVars>>

(* lines 72-73 *)
RedrawCaroten ==
    /\ script = "canopy" /\ pc = "while_caroten"
    /\ OutOfRange("caroten", Last(caroten))
    /\ \E g \in GaussDraws.caroten :
          /\ caroten' = SetLast(caroten, g)
          /\ gauss' = g
    /\ UNCHANGED <<cfgVars, clsVars, storedAxes,
                   pc, error, nb, i, j, N, chloro, brown, EWT, LMA,
                   soil_reflectance, LAI, hot_spot, LAD_inclination,
                   LAD_bimodality, geoVars, output_spec, output_array,
                   spectrum, calls, colWrites, fileVars, soilVars>>

(* line 72 false, then lines 77-86 *)
SampleLMA ==
    /\ script = "canopy" /\ pc = "while_caroten"
    /\ ~OutOfRange("caroten", Last(caroten))
    /\ brown' = Append(brown, 0)
    /\ \E e \in UniformDraws.EWT, g \in GaussDraws.LMA :
          /\ EWT' = Append(EWT, e)
          /\ LMA' = Append(LMA, g)
          /\ gauss' = g
    /\ pc' = "while_LMA"
    /\ UNCHANGED <<cfgVars, clsVars, storedAxes,
                   error, nb, i, j, N, chloro, caroten,
                   soil_reflectance, LAI, hot_spot, LAD_inclination,
                   LAD_bimodality, geoVars, output_spec, output_array,
                   spectrum, calls, colWrites, fileVars, soilVars>>

(* lines 87-88 *)
RedrawLMA ==
    /\ script = "canopy" /\ pc = "while_LMA"
    /\ OutOfRange("LMA", Last(LMA))
    /\ \E g \in GaussDraws.LMA :
          /\ LMA' = SetLast(LMA, g)
          /\ gauss' = g
    /\ UNCHANGED <<cfgVars, clsVars, storedAxes,
                   pc, error, nb, i, j, N, chloro, caroten, brown,
                   EWT, soil_reflectance, LAI, hot_spot, LAD_inclination,
                   LAD_bimodality, geoVars, output_spec, output_array,
                   spectrum, calls, colWrites, fileVars, soilVars>>

(* line 87 false, then lines 91-108 *)
SampleLAI ==
    /\ script = "canopy" /\ pc = "while_LMA"
    /\ ~OutOfRange("LMA", Last(LMA))
    /\ \E r \in UniformDraws.soil_reflectance, g \in GaussDraws.LAI :
          /\ soil_reflectance' = Append(soil_reflectance, r)
          /\ LAI' = Append(LAI, g)
          /\ gauss' = g
    /\ pc' = "while_LAI"
    /\ UNCHANGED <<cfgVars, clsVars, storedAxes,
                   error, nb, i, j, N, chloro, caroten, brown, EWT,
                   LMA, hot_spot, LAD_inclination, LAD_bimodality, geoVars,
                   output_spec, output_array, spectrum, calls, colWrites,
                   fileVars, soilVars>>

(* lines 109-110 *)
RedrawLAI ==
    /\ script = "canopy" /\ pc = "while_LAI"
    /\ OutOfRange("LAI", Last(LAI))
    /\ \E g \in GaussDraws.LAI :
          /\ LAI' = SetLast(LAI, g)
          /\ gauss' = g
    /\ UNCHANGED <<cfgVars, clsVars, storedAxes,
                   pc, error, nb, i, j, N, chloro, caroten, brown,
                   EWT, LMA, soil_reflectance, hot_spot, LAD_inclination,
                   LAD_bimodality, geoVars, output_spec, output_array,
                   spectrum, calls, colWrites, fileVars, soilVars>>

(* line 109 false, then lines 114-136 and the loop header of line 57 *)
SampleGeometry ==
    /\ script = "canopy" /\ pc = "while_LAI"
    /\ ~OutOfRange("LAI", Last(LAI))
    /\ \E h \in UniformDraws.hot_spot, li \in UniformDraws.LAD_inclination,
          lb \in UniformDraws.LAD_bimodality, sa \in UniformDraws.s_az,
          sz \in UniformDraws.s_za :
          /\ hot_spot' = Append(hot_spot, h)
          /\ LAD_inclination' = Append(LAD_inclination, li)
          /\ LAD_bimodality' = Append(LAD_bimodality, lb)
          /\ s_az' = Append(s_az, sa)
          /\ s_za' = Append(s_za, sz)
    /\ v_az' = Append(v_az, 0)
    /\ v_za' = Append(v_za, 0)
    /\ IF i + 1 < n_bundles
          THEN /\ i' = i + 1
               /\ pc' = "sample"
          ELSE /\ i' = i
               /\ pc' = "names"
    /\ UNCHANGED <<cfgVars, clsVars, storedAxes,
                   error, nb, j, gauss, N, chloro, caroten, brown,
                   EWT, LMA, soil_reflectance, LAI, output_spec, output_array,
                   spectrum, calls, colWrites, fileVars, soilVars>>

-----------------------------------------------------------------------------
(* Canopy script: names, allocation, simulation loop (lines 141-171) *)

(* 'veg bundle ' + str(i+1): a name is modelled by the script and its number *)
SpecName(kind, k) == <<kind, k>>

(* lines 141-151; the for loop of line 150 leaves i = n_bundles - 1 *)
SetupNamesCanopy ==
    /\ script = "canopy" /\ pc = "names"
    /\ output_spec' = [k \in 1..n_bundles |-> SpecName("veg bundle", k)]
    /\ i' = n_bundles - 1
    /\ pc' = "alloc"
    /\ UNCHANGED <<cfgVars, clsVars, storedAxes,
                   error, nb, j, gauss, leafVars, geoVars,
                   output_array, spectrum, calls, colWrites, fileVars, soilVars>>

(* line 158 *)
AllocateCanopy ==
    /\ script = "canopy" /\ pc = "alloc"
    /\ output_array' = Zeros(nb, n_bundles + 1)
    /\ colWrites' = [c \in 0..n_bundles |-> 0]
    /\ j' = 0
    /\ pc' = "sim"
    /\ UNCHANGED <<cfgVars, clsVars, storedAxes,
                   error, nb, i, gauss, leafVars, geoVars,
                   output_spec, spectrum, calls, fileVars, soilVars>>

(* The nominal wavelength axis of pyprosail: 0.400, 0.401, ... um *)
ProsailWavelength(b) == 4000 + 10 * (b - 1)

(* The scripts take the wavelength axis from what the external model
   returns and never compare two returned axes: an invocation may return
   the nominal axis (0) or one displaced by a step (1) *)
AxisVariants == {0, 1}

(* pyprosail.run is external and pure: a deterministic stand-in whose result
   differs from band to band and with the arguments that vary *)
ProsailReflectance(a, b) ==
    1000 * b + 10 * ((a.chloro + (a.s_az \div 10)) % 97) + 3

Prosail(a, ax) ==
    [b \in 1..nb |->
        <<ProsailWavelength(b) + (10 * ax), ProsailReflectance(a, b)>>]

RunArgsFirst(jj) ==
    [N |-> N[1], chloro |-> chloro[1], caroten |-> caroten[1],
     brown |-> brown[1], EWT |-> EWT[1], LMA |-> LMA[1],
     soil_reflectance |-> soil_reflectance[1], LAI |-> LAI[1],
     hot_spot |-> hot_spot[1],
     s_za |-> s_za[i + 1], s_az |-> s_az[i + 1],
     v_za |-> v_za[i + 1], v_az |-> v_az[i + 1],
     LIDF |-> <<LAD_inclination[1], LAD_bimodality[1]>>]

(* lines 164-168: the arguments of pyprosail.run in iteration jj; the
   geometry lists are indexed with i *)
RunArgs(jj) ==
    [N |-> N[jj + 1], chloro |-> chloro[jj + 1], caroten |-> caroten[jj + 1],
     brown |-> brown[jj + 1], EWT |-> EWT[jj + 1], LMA |-> LMA[jj + 1],
     soil_reflectance |-> soil_reflectance[jj + 1], LAI |-> LAI[jj + 1],
     hot_spot |-> hot_spot[jj + 1],
     s_za |-> s_za[i + 1], s_az |-> s_az[i + 1],
     v_za |-> v_za[i + 1], v_az |-> v_az[i + 1],
     LIDF |-> <<LAD_inclination[jj + 1], LAD_bimodality[jj + 1]>>]

SimRangeShort == IF n_bundles > 1 THEN n_bundles - 1 ELSE n_bundles

(* line 161: range(n_bundles) *)
SimRange == n_bundles

(* lines 161-171, one iteration in which pyprosail.run returns *)
SimulateCanopy ==
    /\ script = "canopy" /\ pc = "sim"
    /\ \E ax \in AxisVariants :
          LET a == RunArgs(j)
              sp == Prosail(a, ax)
          IN /\ calls' = Append(calls, a)
             /\ spectrum' = sp
             /\ storedAxes' = storedAxes \cup {Column(sp, 0)}
             /\ output_array' = SetColumn(output_array, j + 1, Column(sp, 1))
             /\ colWrites' = [colWrites EXCEPT ![j + 1] = @ + 1]
    /\ IF j + 1 < SimRange
          THEN /\ j' = j + 1
               /\ pc' = "sim"
          ELSE /\ j' = j
               /\ pc' = "wl"
    /\ UNCHANGED <<cfgVars, clsVars, error, nb, i, gauss, leafVars, geoVars,
                   output_spec, fileVars, soilVars>>

(* lines 165-168 raise: nothing catches it, the interpreter exits *)
SimulateCanopyFails ==
    /\ script = "canopy" /\ pc = "sim"
    /\ calls' = Append(calls, RunArgs(j))
    /\ error' = "SimulationError"
    /\ pc' = "crashed"
    /\ UNCHANGED <<cfgVars, clsVars, storedAxes,
                   nb, i, j, gauss, leafVars, geoVars, output_spec,
                   output_array, spectrum, colWrites, fileVars, soilVars>>

-----------------------------------------------------------------------------
(* Writers shared by the two scripts *)

(* output_base + suffix; k numbers the _atm_NN.sixs files, 0 otherwise *)
FileName(suffix, k) == <<suffix, k>>

output_csv == FileName("_speclib.csv", 0)

output_sli == FileName("_speclib.sli", 0)

output_hdr == FileName("_speclib.hdr", 0)

output_sixsFirst(k) == FileName("_atm_NN.sixs", 1)

output_sixs(k) == FileName("_atm_NN.sixs", k + 1)

IsWritten(name) == \E k \in 1..Len(written) : written[k] = name

(* open(name, 'w') and write: creates or replaces the file *)
WriteFile(name, content) ==
    /\ files' = [n \in DOMAIN files \cup {name} |->
                    IF n = name THEN content ELSE files[n]]
    /\ written' = Append(written, name)

TransposeForgotten(M) == M

(* ndarray.transpose() of a 2-d array *)
Transpose(M) == [c \in 1..Len(M[1]) |-> [r \in 1..Len(M) |-> M[r][c]]]

KeepFirstColumn(M) == M

(* M[:, 1:] *)
DropFirstColumn(M) == [r \in 1..Len(M) |-> Tail(M[r])]

ToFileColumnMajor(M) ==
    [p \in 1..(Len(M) * Len(M[1])) |->
        M[((p - 1) % Len(M)) + 1][((p - 1) \div Len(M)) + 1]]

(* ndarray.tofile: the values in C order, row after row *)
ToFile(M) ==
    [p \in 1..(Len(M) * Len(M[1])) |->
        M[((p - 1) \div Len(M[1])) + 1][((p - 1) % Len(M[1])) + 1]]

(* fmt = '%.3f': three decimals, i.e. the nearest multiple of 0.001 *)
Fmt3(v) == ((v + 5) \div 10) * 10

(* savetxt's default fmt '%.18e' prints a double without loss *)
FmtFull(v) == v

(* np.savetxt(name, X, delimiter=","): one text line per row of X *)
SaveTxt(X, F(_)) ==
    [r \in 1..Len(X) |-> [c \in 1..Len(X[r]) |-> F(X[r][c])]]

-----------------------------------------------------------------------------
(* Canopy script: export (lines 173-194) *)

(* line 174 *)
SetWavelengthsCanopy ==
    /\ script = "canopy" /\ pc = "wl"
    /\ output_array' = SetColumn(output_array, 0, Column(spectrum, 0))
    /\ colWrites' = [colWrites EXCEPT ![0] = @ + 1]
    /\ pc' = "csv"
    /\ UNCHANGED <<cfgVars, clsVars, storedAxes,
                   error, nb, i, j, gauss, leafVars, geoVars,
                   output_spec, spectrum, calls, fileVars, soilVars>>

(* line 175 *)
WriteCsvCanopy ==
    /\ script = "canopy" /\ pc = "csv"
    /\ WriteFile(output_csv, SaveTxt(Transpose(output_array), Fmt3))
    /\ pc' = "sli"
    /\ UNCHANGED <<cfgVars, clsVars, storedAxes,
                   error, nb, i, j, gauss, leafVars, geoVars,
                   output_spec, output_array, spectrum, calls, colWrites,
                   soilVars>>

(* lines 178-179 *)
WriteSliCanopy ==
    /\ script = "canopy" /\ pc = "sli"
    /\ WriteFile(output_sli, ToFile(Transpose(DropFirstColumn(output_array))))
    /\ pc' = "hdr"
    /\ UNCHANGED <<cfgVars, clsVars, storedAxes,
                   error, nb, i, j, gauss, leafVars, geoVars,
                   output_spec, output_array, spectrum, calls, colWrites,
                   soilVars>>

(* lines 181-193 *)
MetadataCanopy ==
    [samples |-> nb,
     lines |-> n_bundles,
     bands |-> 1,
     data_type |-> 5,
     header_offset |-> 0,
     interleave |-> "bsq",
     byte_order |-> 0,
     sensor_type |-> "prosail",
     spectra_names |-> output_spec,
     wavelength_units |-> "micrometers",
     wavelength |-> Column(output_array, 0)]

(* line 194 *)
WriteHdrCanopy ==
    /\ script = "canopy" /\ pc = "hdr"
    /\ WriteFile(output_hdr, MetadataCanopy)
    /\ pc' = "done"
    /\ UNCHANGED <<cfgVars, clsVars, storedAxes,
                   error, nb, i, j, gauss, leafVars, geoVars,
                   output_spec, output_array, spectrum, calls, colWrites,
                   soilVars>>

-----------------------------------------------------------------------------
(* Soil script: sampling and sensor configuration (lines 58-204) *)

aero_profile == <<"Continental", "BiomassBurning">>

atmos_profile == <<"Tropical">>

ground_reflectance == <<"HomogeneousLambertian">>

(* np.random.random_integers(0, len(options) - 1, n) *)
RandomIntegers(options, n) == [1..n -> 0..(Len(options) - 1)]

(* aei.randomFloats(n, lo, hi): one representative value of the range *)
RandomFloats(n, v) == [1..n -> {v}]

(* line 90: view_a[view_a < 0] += 360, in 0.1 degree *)
To360(a) == [k \in 1..Len(a) |-> IF a[k] < 0 THEN a[k] + 3600 ELSE a[k]]

(* The SixS object after lines 15 and 73-77 *)
NewSixS ==
    [aero_profile |-> "default", atmos_profile |-> "default", aot550 |-> 0,
     geometry |-> [solar_a |-> 0, solar_z |-> 0, view_a |-> 0, view_z |-> 0],
     ground_reflectance |->
        [method |-> "default", soil_file |-> -1,
         spectrum |-> [soil_file |-> -1, band_unit |-> "none",
                       band_centre |-> 0]],
     altitudes |-> <<"satellite_level", "sea_level">>]

(* lines 58-90 *)
SampleAtmospheres ==
    /\ script = "soil" /\ pc = "atmospheres"
    /\ atmos_profile_ind' \in RandomIntegers(atmos_profile, n_atmospheres)
    /\ aero_profile_ind' \in RandomIntegers(aero_profile, n_atmospheres)
    /\ ground_reflectance_ind' \in
          RandomIntegers(ground_reflectance, n_atmospheres)
    /\ aot' \in RandomFloats(n_atmospheres, 5)
    /\ solar_a' \in RandomFloats(n_atmospheres, 1800)
    /\ solar_z' \in RandomFloats(n_atmospheres, 300)
    /\ \E va \in RandomFloats(n_atmospheres, 10) :
          view_a' = To360([k \in 1..n_atmospheres |-> va[k] - 25])
    /\ view_z' \in RandomFloats(n_atmospheres, 5)
    /\ pc' = "soils"
    /\ UNCHANGED <<cfgVars, clsVars, storedAxes,
                   error, nb, i, j, gauss, leafVars, geoVars,
                   output_spec, output_array, spectrum, calls, colWrites,
                   fileVars, num_bands, good_bands, soil_spectra, s,
                   wavelengths, results>>

(* soil_files, lines 97-124: a file is named by its index in the list *)
soil_files == [k \in 1..NumSoilFiles |-> k - 1]

RandomChoices(population, k) == [1..k -> population]

(* random.sample(population, k): k distinct positions, in any order *)
RandomSample(population, k) ==
    {q \in [1..k -> population] :
        \A a, b \in 1..k : a # b => q[a] # q[b]}

(* lines 127-130 *)
SampleSoils ==
    /\ script = "soil" /\ pc = "soils"
    /\ n_bundles <= Len(soil_files)
    /\ \E srnd \in RandomSample(0..(Len(soil_files) - 1), n_bundles) :
          /\ soil_spectra' = [k \in 1..n_bundles |-> soil_files[srnd[k] + 1]]
          /\ i' = srnd[n_bundles]
    /\ pc' = "sensor"
    /\ UNCHANGED <<cfgVars, clsVars, storedAxes,
                   error, nb, j, gauss, leafVars, geoVars,
                   output_spec, output_array, spectrum, calls, colWrites,
                   fileVars, num_bands, good_bands, atmVars, s, wavelengths,
                   results>>

(* line 127 raises ValueError: sample larger than population *)
SampleSoilsFails ==
    /\ script = "soil" /\ pc = "soils"
    /\ n_bundles > Len(soil_files)
    /\ error' = "ValueError"
    /\ pc' = "crashed"
    /\ UNCHANGED <<cfgVars, clsVars, storedAxes,
                   nb, i, j, gauss, leafVars, geoVars, output_spec,
                   output_array, spectrum, calls, colWrites, fileVars,
                   soilVars>>

(* np.arange(n) *)
Arange(n) == [k \in 1..n |-> k - 1]

(* np.arange(n) + off *)
ArangePlus(n, off) == [k \in 1..n |-> k - 1 + off]

(* line 45: len(np.arange(0.4, 2.5, 0.01)) *)
LenWl == 210

OliAllBands == Arange(10)

(* line 167 *)
OliGoodBands == ArangePlus(6, 1)

(* lines 135-200: num_bands and good_bands of each branch *)
SensorTable ==
    [custom      |-> [num_bands |-> LenWl, good_bands |-> Arange(LenWl)],
     ali         |-> [num_bands |-> 7, good_bands |-> Arange(7)],
     aster       |-> [num_bands |-> 9, good_bands |-> Arange(9)],
     er2_mas     |-> [num_bands |-> 7, good_bands |-> Arange(7)],
     gli         |-> [num_bands |-> 30, good_bands |-> Arange(30)],
     landsat_etm |-> [num_bands |-> 6, good_bands |-> Arange(6)],
     landsat_mss |-> [num_bands |-> 4, good_bands |-> Arange(4)],
     landsat_oli |-> [num_bands |-> 10, good_bands |-> OliGoodBands],
     landsat_tm  |-> [num_bands |-> 6, good_bands |-> Arange(6)],
     meris       |-> [num_bands |-> 16, good_bands |-> Arange(16)],
     modis       |-> [num_bands |-> 8, good_bands |-> Arange(8)],
     polder      |-> [num_bands |-> 8, good_bands |-> Arange(8)],
     spot_hrv    |-> [num_bands |-> 4, good_bands |-> Arange(4)],
     spot_vgt    |-> [num_bands |-> 4, good_bands |-> Arange(4)],
     vnir        |-> [num_bands |-> 200, good_bands |-> Arange(200)],
     whole_range |-> [num_bands |-> 380, good_bands |-> ArangePlus(210, 20)]]

SupportedSensors == DOMAIN SensorTable

(* A name the chain of line 135-200 does not list *)
OtherSensors == {"hyperion"}

SensorConfigDefaultsToCustom(name) ==
    IF name \in SupportedSensors
       THEN [supported |-> TRUE, num_bands |-> SensorTable[name].num_bands,
             good_bands |-> SensorTable[name].good_bands]
       ELSE [supported |-> TRUE, num_bands |-> SensorTable.custom.num_bands,
             good_bands |-> SensorTable.custom.good_bands]

(* lines 135-202: the branch taken for a sensor name; else is line 201 *)
SensorConfig(name) ==
    IF name \in SupportedSensors
       THEN [supported |-> TRUE, num_bands |-> SensorTable[name].num_bands,
             good_bands |-> SensorTable[name].good_bands]
       ELSE [supported |-> FALSE, num_bands |-> 0, good_bands |-> <<>>]

(* lines 135-204 *)
ConfigureSensor ==
    /\ script = "soil" /\ pc = "sensor"
    /\ SensorConfig(target_sensor).supported
    /\ num_bands' = SensorConfig(target_sensor).num_bands
    /\ good_bands' = SensorConfig(target_sensor).good_bands
    /\ nb' = Len(good_bands')
    /\ pc' = "names"
    /\ UNCHANGED <<cfgVars, clsVars, storedAxes,
                   error, i, j, gauss, leafVars, geoVars, output_spec,
                   output_array, spectrum, calls, colWrites, fileVars,
                   soil_spectra, atmVars, s, wavelengths, results>>

(* lines 201-202: raise OSError('Unsupported sensor configuration') *)
ConfigureSensorFails ==
    /\ script = "soil" /\ pc = "sensor"
    /\ ~SensorConfig(target_sensor).supported
    /\ error' = "OSError"
    /\ pc' = "crashed"
    /\ UNCHANGED <<cfgVars, clsVars, storedAxes,
                   nb, i, j, gauss, leafVars, geoVars, output_spec,
                   output_array, spectrum, calls, colWrites, fileVars,
                   soilVars>>

-----------------------------------------------------------------------------
(* Soil script: names, allocation, atmosphere and bundle loops (209-275) *)

(* lines 209-223; the for loop of line 222 leaves i = n_bundles - 1 *)
SetupNamesSoil ==
    /\ script = "soil" /\ pc = "names"
    /\ output_spec' = [k \in 1..n_bundles |-> SpecName("Soil bundle", k)]
    /\ i' = n_bundles - 1
    /\ pc' = "alloc"
    /\ UNCHANGED <<cfgVars, clsVars, storedAxes,
                   error, nb, j, gauss, leafVars, geoVars,
                   output_array, spectrum, calls, colWrites, fileVars,
                   soilVars>>

(* line 230, then the loop header of line 232 *)
AllocateSoil ==
    /\ script = "soil" /\ pc = "alloc"
    /\ output_array' = Zeros(nb, (n_bundles * n_atmospheres) + 1)
    /\ colWrites' = [c \in 0..(n_bundles * n_atmospheres) |-> 0]
    /\ i' = 0
    /\ pc' = "atm"
    /\ UNCHANGED <<cfgVars, clsVars, storedAxes,
                   error, nb, j, gauss, leafVars, geoVars,
                   output_spec, spectrum, calls, fileVars, soilVars>>

(* lines 235-243, then the loop header of line 246 *)
SetAtmosphere ==
    /\ script = "soil" /\ pc = "atm"
    /\ s' = [s EXCEPT
                !.aero_profile = aero_profile[aero_profile_ind[i + 1] + 1],
                !.atmos_profile = atmos_profile[atmos_profile_ind[i + 1] + 1],
                !.aot550 = aot[i + 1],
                !.geometry = [solar_a |-> solar_a[i + 1],
                              solar_z |-> solar_z[i + 1],
                              view_a |-> view_a[i + 1],
                              view_z |-> view_z[i + 1]]]
    /\ j' = 0
    /\ pc' = "sim"
    /\ UNCHANGED <<cfgVars, clsVars, storedAxes,
                   error, nb, i, gauss, leafVars, geoVars,
                   output_spec, output_array, spectrum, calls, colWrites,
                   fileVars, num_bands, good_bands, soil_spectra, atmVars,
                   wavelengths, results>>

(* The unit tags aei.readJFSC can find in a soil file *)
BandUnits == {"Nanometers", "Micrometers", "Wavenumber"}

(* The unit tags of the soil files on disk: the library is in nanometers
   but for its first file, which may carry any tag *)
SoilUnitChoices ==
    {[f \in 1..NumSoilFiles |-> IF f = 1 THEN u ELSE "Nanometers"] :
        u \in BandUnits}

(* The runs explored, as <<target_sensor, unit tags, n_atmospheres>>:
   every sensor name over the nanometre library with one atmosphere, and
   the sensor the script ships with (line 39) over every library and
   every number of atmospheres *)
SoilInputs ==
    ((SupportedSensors \cup OtherSensors)
        \X {[f \in 1..NumSoilFiles |-> "Nanometers"]} \X {1})
    \cup ({"landsat_oli"} \X SoilUnitChoices \X (1..MaxAtmospheres))

(* The first band centre of a soil file as its own unit writes it
   (400 nm, 0.4 um, 25000 1/cm), in 0.0001 of that unit *)
RawBandCentre(unit) ==
    CASE unit = "Nanometers" -> 4000000
      [] unit = "Micrometers" -> 4000
      [] OTHER -> 250000000

(* lines 255-256: only the nanometer tag is converted, any other tag
   passes unchanged *)
ToMicrometers(unit, centre) ==
    IF unit = "Nanometers" THEN centre \div 1000 ELSE centre

(* lines 249-259: the soil curve of bundle jj as handed to 6S *)
SoilCurve(jj) ==
    [soil_file |-> soil_spectra[jj + 1],
     band_unit |-> soil_units[soil_spectra[jj + 1] + 1],
     band_centre |->
        ToMicrometers(soil_units[soil_spectra[jj + 1] + 1],
                      RawBandCentre(soil_units[soil_spectra[jj + 1] + 1]))]

(* line 243 *)
ground_refl == ground_reflectance[ground_reflectance_ind[i + 1] + 1]

(* lines 249-260: the SixS object with the ground reflectance of bundle jj *)
WithGround(jj) ==
    [s EXCEPT !.ground_reflectance =
        [method |-> ground_refl, soil_file |-> soil_spectra[jj + 1],
         spectrum |-> SoilCurve(jj)]]

(* The band centres a 6S run reports, one per band of the sensor *)
SixSWavelength(sensor, k) ==
    IF sensor = "whole_range" THEN 2000 + 100 * k ELSE 4000 + 100 * k

(* run_sixs_params is external and pure: a deterministic stand-in whose
   value differs with the band, the soil curve and the aerosol profile *)
SixSResult(st, k) ==
    100 * (k + 1) + 10 * st.ground_reflectance.soil_file
       + (IF st.aero_profile = "BiomassBurning" THEN 3 ELSE 0) + 1

(* lines 263-269: wavelengths and results, one entry per band *)
RunSixS(sensor, st, ax) ==
    [wavelengths |-> [k \in 1..num_bands |->
                         SixSWavelength(sensor, k - 1) + (10 * ax)],
     results |-> [k \in 1..num_bands |-> SixSResult(st, k - 1)]]

(* a[good_bands] *)
Take(a, idx) == [k \in 1..Len(idx) |-> a[idx[k] + 1]]

OutColumnBundleOnly(ii, jj) == jj + 1

(* line 272: the column of atmosphere ii, bundle jj *)
OutColumn(ii, jj) == (ii * n_bundles) + jj + 1

(* lines 246-272, one iteration in which the 6S run returns *)
SimulateSoil ==
    /\ script = "soil" /\ pc = "sim"
    /\ \E ax \in AxisVariants :
          LET st == WithGround(j)
              out == RunSixS(target_sensor, st, ax)
              col == OutColumn(i, j)
          IN /\ s' = st
             /\ spectrum' = SoilCurve(j)
             /\ calls' = Append(calls, [i |-> i, j |-> j, s |-> st])
             /\ wavelengths' = out.wavelengths
             /\ results' = out.results
             /\ storedAxes' =
                   storedAxes \cup {Take(out.wavelengths, good_bands)}
             /\ output_array' =
                   SetColumn(output_array, col, Take(out.results, good_bands))
             /\ colWrites' = [colWrites EXCEPT ![col] = @ + 1]
    /\ IF j + 1 < n_bundles
          THEN /\ j' = j + 1
               /\ pc' = "sim"
          ELSE /\ j' = j
               /\ pc' = "sixs"
    /\ UNCHANGED <<cfgVars, clsVars, error, nb, i, gauss, leafVars, geoVars,
                   output_spec, fileVars, num_bands, good_bands, soil_spectra,
                   atmVars>>

(* lines 249-266 raise: nothing catches it, the interpreter exits *)
SimulateSoilFails ==
    /\ script = "soil" /\ pc = "sim"
    /\ s' = WithGround(j)
    /\ calls' = Append(calls, [i |-> i, j |-> j, s |-> s'])
    /\ error' = "SimulationError"
    /\ pc' = "crashed"
    /\ UNCHANGED <<cfgVars, clsVars, storedAxes,
                   nb, i, j, gauss, leafVars, geoVars, output_spec,
                   output_array, spectrum, colWrites, fileVars, num_bands,
                   good_bands, soil_spectra, atmVars, wavelengths, results>>

(* line 275, then the loop header of line 232 *)
WriteSixs ==
    /\ script = "soil" /\ pc = "sixs"
    /\ WriteFile(output_sixs(i), s)
    /\ IF i + 1 < n_atmospheres
          THEN /\ i' = i + 1
               /\ pc' = "atm"
          ELSE /\ i' = i
               /\ pc' = "wl"
    /\ UNCHANGED <<cfgVars, clsVars, storedAxes,
                   error, nb, j, gauss, leafVars, geoVars,
                   output_spec, output_array, spectrum, calls, colWrites,
                   soilVars>>

-----------------------------------------------------------------------------
(* Soil script: export (lines 277-299) *)

(* lines 278-279 *)
SetWavelengthsSoil ==
    /\ script = "soil" /\ pc = "wl"
    /\ output_array' = SetColumn(output_array, 0, Take(wavelengths, good_bands))
    /\ colWrites' = [colWrites EXCEPT ![0] = @ + 1]
    /\ pc' = "csv"
    /\ UNCHANGED <<cfgVars, clsVars, storedAxes,
                   error, nb, i, j, gauss, leafVars, geoVars,
                   output_spec, spectrum, calls, fileVars, soilVars>>

(* line 280 *)
WriteCsvSoil ==
    /\ script = "soil" /\ pc = "csv"
    /\ WriteFile(output_csv, SaveTxt(Transpose(output_array), FmtFull))
    /\ pc' = "sli"
    /\ UNCHANGED <<cfgVars, clsVars, storedAxes,
                   error, nb, i, j, gauss, leafVars, geoVars,
                   output_spec, output_array, spectrum, calls, colWrites,
                   soilVars>>

(* lines 283-284 *)
WriteSliSoil ==
    /\ script = "soil" /\ pc = "sli"
    /\ WriteFile(output_sli, ToFile(Transpose(DropFirstColumn(output_array))))
    /\ pc' = "hdr"
    /\ UNCHANGED <<cfgVars, clsVars, storedAxes,
                   error, nb, i, j, gauss, leafVars, geoVars,
                   output_spec, output_array, spectrum, calls, colWrites,
                   soilVars>>

MetadataSoilBundlesOnly ==
    [samples |-> nb,
     lines |-> n_bundles,
     bands |-> 1,
     data_type |-> 5,
     header_offset |-> 0,
     interleave |-> "bsq",
     byte_order |-> 0,
     sensor_type |-> target_sensor,
     spectra_names |-> output_spec,
     wavelength_units |-> "micrometers",
     wavelength |-> Take(wavelengths, good_bands)]

(* lines 286-298 *)
MetadataSoil ==
    [samples |-> nb,
     lines |-> n_bundles * n_atmospheres,
     bands |-> 1,
     data_type |-> 5,
     header_offset |-> 0,
     interleave |-> "bsq",
     byte_order |-> 0,
     sensor_type |-> target_sensor,
     spectra_names |-> output_spec,
     wavelength_units |-> "micrometers",
     wavelength |-> Take(wavelengths, good_bands)]

(* line 299 when the name envi is bound *)
WriteHdrSoil ==
    /\ script = "soil" /\ pc = "hdr"
    /\ WriteFile(output_hdr, MetadataSoil)
    /\ pc' = "done"
    /\ UNCHANGED <<cfgVars, clsVars, storedAxes,
                   error, nb, i, j, gauss, leafVars, geoVars,
                   output_spec, output_array, spectrum, calls, colWrites,
                   soilVars>>

(* line 299 when it is not: the script imports spectral (line 11) and calls
   envi.write_envi_header, so envi is bound only if `from Py6S import *'
   (line 12) happens to export that name; otherwise NameError *)
WriteHdrSoilFails ==
    /\ script = "soil" /\ pc = "hdr"
    /\ error' = "NameError"
    /\ pc' = "crashed"
    /\ UNCHANGED <<cfgVars, clsVars, storedAxes,
                   nb, i, j, gauss, leafVars, geoVars, output_spec,
                   output_array, spectrum, calls, colWrites, fileVars,
                   soilVars>>

-----------------------------------------------------------------------------
(* Classifier application (neon-apply-multiclass.py).  The script is a
   straight line of module-level statements; a statement is modelled by
   the names it reads, the names it binds and the file it writes.  Only
   names the script itself binds are tracked: the imports of lines 6-18
   bind module names and classes, none of them by a star import. *)

Stmt(first, last, uses, binds, writes) ==
    [first |-> first, last |-> last, uses |-> uses, binds |-> binds,
     writes |-> writes]

NoFile == ""

pred_spp == "species_id_subm_new.csv"

pred_gen == "genus_id_subm.csv"

path_plots == "plots"

Statements ==
    << Stmt(44, 46, {}, {"gbc"}, NoFile),
       Stmt(48, 50, {}, {"rfc"}, NoFile),
       Stmt(53, 55, {}, {"gbc_ge"}, NoFile),
       Stmt(57, 59, {}, {"rfc_ge"}, NoFile),
       Stmt(62, 69, {},
            {"misc_vars", "sp_unique", "ge_unique", "n_species", "n_genera"},
            NoFile),
       Stmt(72, 74, {}, {"reducer"}, NoFile),
       Stmt(112, 119, {"misc_vars"}, {"refl", "crid", "hght"}, NoFile),
       Stmt(124, 124, {"reducer", "refl"}, {"transformed"}, NoFile),
       Stmt(159, 159, {"ovr_gbc", "transformed"}, {"pred_gbc"}, NoFile),
       Stmt(160, 160, {"ovr_rfc", "transformed"}, {"pred_rfc"}, NoFile),
       Stmt(163, 163, {"gbc_ge", "transformed"}, {"pred_gbc_ge"}, NoFile),
       Stmt(164, 164, {"rfc_ge", "transformed"}, {"pred_rfc_ge"}, NoFile),
       Stmt(167, 167, {"ovr_gbc", "transformed"}, {"prob_gbc"}, NoFile),
       Stmt(168, 168, {"ovr_rfc", "transformed"}, {"prob_rfc"}, NoFile),
       Stmt(171, 171, {"gbc_ge", "transformed"}, {"prob_gbc_ge"}, NoFile),
       Stmt(172, 172, {"rfc_ge", "transformed"}, {"prob_rfc_ge"}, NoFile),
       Stmt(175, 240,
            {"pred_gbc", "pred_rfc", "pred_gbc_ge", "pred_rfc_ge", "crid",
             "n_species", "n_genera", "sp_unique", "ge_unique"},
            {}, path_plots),
       Stmt(243, 274,
            {"crid", "pred_gbc", "pred_rfc", "prob_gbc", "prob_rfc",
             "n_species"},
            {"final_df"}, pred_spp),
       Stmt(278, 308,
            {"crid", "pred_gbc_ge", "pred_rfc_ge", "prob_gbc_ge",
             "prob_rfc_ge", "n_genera", "ge_unique"},
            {"final_df"}, pred_gen) >>

(* The statements that call predict or predict_proba, and the model each
   calls it on *)
PredictStatements ==
    {k \in 1..Len(Statements) : Statements[k].first \in 159..172}

ModelNames == {"gbc", "rfc", "gbc_ge", "rfc_ge", "ovr_gbc", "ovr_rfc"}

ModelUsed(k) == Statements[k].uses \cap ModelNames

(* One statement: reading a name no earlier statement bound raises
   NameError and ends the run; otherwise the statement binds its names
   and writes its file *)
ClassifyStep ==
    /\ script = "classify" /\ pc = "run"
    /\ LET st == Statements[stmt]
       IN IF st.uses \subseteq bound
             THEN /\ bound' = bound \cup st.binds
                  /\ IF st.writes = NoFile
                        THEN UNCHANGED fileVars
                        ELSE WriteFile(FileName(st.writes, 0), st.uses)
                  /\ IF stmt < Len(Statements)
                        THEN /\ stmt' = stmt + 1
                             /\ pc' = pc
                        ELSE /\ stmt' = stmt
                             /\ pc' = "done"
                  /\ error' = error
             ELSE /\ error' = "NameError"
                  /\ pc' = "crashed"
                  /\ UNCHANGED <<bound, stmt, fileVars>>
    /\ UNCHANGED <<cfgVars, storedAxes, nb, i, j, gauss, leafVars, geoVars,
                   output_spec, output_array, spectrum, calls, colWrites,
                   soilVars>>

-----------------------------------------------------------------------------
(* The run *)

NoList == <<>>

InitCommon ==
    /\ error = ""
    /\ n_bundles \in 1..MaxBundles
    /\ i = 0 /\ j = 0 /\ gauss = 0
    /\ N = NoList /\ chloro = NoList /\ caroten = NoList /\ brown = NoList
    /\ EWT = NoList /\ LMA = NoList /\ soil_reflectance = NoList
    /\ LAI = NoList /\ hot_spot = NoList
    /\ LAD_inclination = NoList /\ LAD_bimodality = NoList
    /\ s_az = NoList /\ s_za = NoList /\ v_az = NoList /\ v_za = NoList
    /\ output_spec = NoList
    /\ output_array = NoList
    /\ spectrum = NoList
    /\ calls = NoList
    /\ colWrites = NoList
    /\ written = NoList
    /\ files = NoList
    /\ num_bands = 0 /\ good_bands = NoList
    /\ soil_spectra = NoList
    /\ aero_profile_ind = NoList /\ atmos_profile_ind = NoList
    /\ ground_reflectance_ind = NoList
    /\ aot = NoList /\ solar_a = NoList /\ solar_z = NoList
    /\ view_a = NoList /\ view_z = NoList
    /\ s = NewSixS
    /\ wavelengths = NoList /\ results = NoList
    /\ storedAxes = {}
    /\ bound = {}
    /\ stmt = 1

(* model_veg_bundles.py after line 54 *)
InitCanopy ==
    /\ script = "canopy"
    /\ pc = "sample"
    /\ n_atmospheres = 1
    /\ nb = CanopyBands
    /\ target_sensor = "prosail"
    /\ soil_units = NoList
    /\ InitCommon

(* spec-soil-bundles.py after line 50 *)
InitSoil ==
    /\ script = "soil"
    /\ pc = "atmospheres"
    /\ nb = 0
    /\ \E in \in SoilInputs :
          /\ target_sensor = in[1]
          /\ soil_units = in[2]
          /\ n_atmospheres = in[3]
    /\ InitCommon

(* neon-apply-multiclass.py after line 41 *)
InitClassify ==
    /\ script = "classify"
    /\ pc = "run"
    /\ n_bundles = 1
    /\ n_atmospheres = 1
    /\ nb = 0
    /\ target_sensor = "none"
    /\ soil_units = NoList
    /\ InitCommon

Init == InitCanopy \/ InitSoil \/ InitClassify

NextCanopy ==
    \/ SampleN \/ RedrawChloro \/ SampleCaroten \/ RedrawCaroten
    \/ SampleLMA \/ RedrawLMA \/ SampleLAI \/ RedrawLAI \/ SampleGeometry
    \/ SetupNamesCanopy \/ AllocateCanopy
    \/ SimulateCanopy \/ SimulateCanopyFails
    \/ SetWavelengthsCanopy \/ WriteCsvCanopy \/ WriteSliCanopy
    \/ WriteHdrCanopy

NextSoil ==
    \/ SampleAtmospheres \/ SampleSoils \/ SampleSoilsFails
    \/ ConfigureSensor \/ ConfigureSensorFails
    \/ SetupNamesSoil \/ AllocateSoil \/ SetAtmosphere
    \/ SimulateSoil \/ SimulateSoilFails \/ WriteSixs
    \/ SetWavelengthsSoil \/ WriteCsvSoil \/ WriteSliSoil
    \/ WriteHdrSoil \/ WriteHdrSoilFails

NextClassify == ClassifyStep

Next == NextCanopy \/ NextSoil \/ NextClassify

Spec == Init /\ [][Next]_vars

(* The canopy script alone.  The interpreter runs the statement it is at
   (weak fairness of the sampling statements), and each of the four
   Gaussian sources of lines 64-66, 71-73, 84-88 and 107-109 eventually
   returns a value inside its interval: a redraw that lands inside is
   enabled for as long as the loop spins, so it is eventually taken.  The
   loops themselves have no retry counter. *)
SamplingStep ==
    SampleN \/ SampleCaroten \/ SampleLMA \/ SampleLAI \/ SampleGeometry

RedrawInside(Redraw, p, list) == Redraw /\ ~OutOfRange(p, Last(list'))

SamplingFairness ==
    /\ WF_vars(SamplingStep)
    /\ WF_vars(RedrawInside(RedrawChloro, "chloro", chloro))
    /\ WF_vars(RedrawInside(RedrawCaroten, "caroten", caroten))
    /\ WF_vars(RedrawInside(RedrawLMA, "LMA", LMA))
    /\ WF_vars(RedrawInside(RedrawLAI, "LAI", LAI))

SamplingSpec == InitCanopy /\ [][NextCanopy]_vars /\ SamplingFairness

-----------------------------------------------------------------------------
(* Properties *)

(* The number of spectra a complete run simulates *)
NumSpectra ==
    IF script = "canopy" THEN n_bundles ELSE n_bundles * n_atmospheres

(* Every model invocation of the run has returned *)
AllSimulated ==
    \/ pc \in {"wl", "csv", "sli", "hdr", "done"}
    \/ pc = "crashed" /\ error = "NameError"

(* C1: in the canopy script every stored chloro, caroten, LMA and LAI value
   of a bundle whose sampling step has finished lies in its interval
   ([5,75], [1.5,15], [0.0022,0.0365], [0.1,18]); while a rejection loop
   runs, the stored value is the value random.gauss returned (a fresh draw,
   not the interval bound), and no model invocation receives a value outside
   the intervals. *)
C1_SampledWithinInterval ==
    script = "canopy" =>
        /\ \A k \in 1..Len(v_za) :
              /\ chloro[k] >= 5 /\ chloro[k] <= 75
              /\ caroten[k] >= 15 /\ caroten[k] <= 150
              /\ LMA[k] >= 22 /\ LMA[k] <= 365
              /\ LAI[k] >= 1 /\ LAI[k] <= 180
        /\ pc = "while_chloro" => Last(chloro) = gauss
        /\ pc = "while_caroten" => Last(caroten) = gauss
        /\ pc = "while_LMA" => Last(LMA) = gauss
        /\ pc = "while_LAI" => Last(LAI) = gauss
        /\ \A k \in 1..Len(calls) :
              /\ calls[k].chloro \in 5..75
              /\ calls[k].caroten \in 15..150
              /\ calls[k].LMA \in 22..365
              /\ calls[k].LAI \in 1..180

(* A bundle has been sampled and the next draw of chloro is being rejected *)
C1_Witness ==
    /\ script = "canopy"
    /\ Len(v_za) >= 1
    /\ pc = "while_chloro"
    /\ Last(chloro) > 75

(* C2: after the canopy simulation loop, column j+1 of output_array is the
   reflectance the j-th pyprosail.run call returned, that call received the
   leaf and canopy parameters sampled at index j, every column 1..n_bundles
   was assigned exactly once, and (from line 174 on) column 0 is the
   wavelength axis. *)
C2_ColumnHoldsBundle ==
    (script = "canopy" /\ AllSimulated) =>
        /\ Len(calls) = n_bundles
        /\ \A jj \in 0..(n_bundles - 1) :
              /\ calls[jj + 1].N = N[jj + 1]
              /\ calls[jj + 1].chloro = chloro[jj + 1]
              /\ calls[jj + 1].caroten = caroten[jj + 1]
              /\ calls[jj + 1].brown = brown[jj + 1]
              /\ calls[jj + 1].EWT = EWT[jj + 1]
              /\ calls[jj + 1].LMA = LMA[jj + 1]
              /\ calls[jj + 1].soil_reflectance = soil_reflectance[jj + 1]
              /\ calls[jj + 1].LAI = LAI[jj + 1]
              /\ calls[jj + 1].hot_spot = hot_spot[jj + 1]
              /\ calls[jj + 1].LIDF =
                    <<LAD_inclination[jj + 1], LAD_bimodality[jj + 1]>>
              /\ \A b \in 1..nb :
                    output_array[b][jj + 2] =
                        ProsailReflectance(calls[jj + 1], b)
              /\ colWrites[jj + 1] = 1
        /\ pc # "wl" =>
              /\ \E ax \in AxisVariants : \A b \in 1..nb :
                    output_array[b][1] = ProsailWavelength(b) + (10 * ax)
              /\ \A b \in 1..nb : output_array[b][1] = spectrum[b][1]
              /\ colWrites[0] = 1

(* A finished loop over bundles whose chlorophyll draws differ *)
C2_Witness ==
    /\ script = "canopy" /\ pc = "csv"
    /\ n_bundles >= 2
    /\ chloro[1] # chloro[2]

(* The band count the configuration declares *)
DeclaredBands == IF script = "canopy" THEN nb ELSE num_bands

(* C3: when every model invocation succeeded, output_array has one column
   per simulated spectrum plus the wavelength column, and as many rows as
   the band count declared for the configured sensor. *)
C3_RowsAreDeclaredBands ==
    AllSimulated =>
        /\ \A r \in 1..Len(output_array) :
              Len(output_array[r]) = NumSpectra + 1
        /\ Len(output_array) = DeclaredBands

(* C3 as amended: the row count is the number of retained (good) bands,
   which is the declared band count of every sensor except landsat_oli
   (6 of 10) and whole_range (210 of 380). *)
C3_RowsAreGoodBands ==
    AllSimulated =>
        /\ \A r \in 1..Len(output_array) :
              Len(output_array[r]) = NumSpectra + 1
        /\ script = "canopy" => Len(output_array) = nb
        /\ script = "soil" =>
              /\ Len(output_array) = Len(good_bands)
              /\ Len(output_array) =
                    CASE target_sensor = "landsat_oli" -> 6
                      [] target_sensor = "whole_range" -> 210
                      [] OTHER -> num_bands

(* A complete landsat_oli run: 10 declared bands, 6 rows *)
C3_Witness ==
    /\ script = "soil" /\ pc = "done"
    /\ target_sensor = "landsat_oli"
    /\ num_bands = 10
    /\ Len(output_array) = 6

(* The text rendering savetxt applies in each script *)
CsvText(v) == IF script = "canopy" THEN Fmt3(v) ELSE FmtFull(v)

(* C4: the csv has one row per wavelength sample and the columns
   [wavelength, spectrum_1, ..., spectrum_N]: B rows of N+1 values. *)
C4_CsvRowsAreWavelengths ==
    IsWritten(output_csv) =>
        /\ Len(files[output_csv]) = nb
        /\ \A r \in 1..Len(files[output_csv]) :
              Len(files[output_csv][r]) = NumSpectra + 1

(* C4 as amended: the csv has one row per column of output_array, N+1 rows
   of B values each; the first row is the wavelength axis and row n+1 is
   spectrum n. *)
C4_CsvRowsAreSpectra ==
    IsWritten(output_csv) =>
        /\ Len(files[output_csv]) = NumSpectra + 1
        /\ \A r \in 1..(NumSpectra + 1) :
              /\ Len(files[output_csv][r]) = nb
              /\ \A b \in 1..nb :
                    files[output_csv][r][b] = CsvText(output_array[b][r])

(* The canopy csv of the largest run: MaxBundles + 1 rows of CanopyBands *)
C4_Witness ==
    /\ script = "canopy"
    /\ IsWritten(output_csv)
    /\ n_bundles = MaxBundles
    /\ Len(files[output_csv]) = MaxBundles + 1
    /\ Len(files[output_csv][1]) = CanopyBands

(* C5: the sli holds only the spectra, band by band: position p (0-based)
   is band (p div N)+1 of spectrum (p mod N)+1. *)
C5_SliBandMajor ==
    IsWritten(output_sli) =>
        /\ Len(files[output_sli]) = nb * NumSpectra
        /\ \A p \in 0..(Len(files[output_sli]) - 1) :
              files[output_sli][p + 1] =
                  output_array[(p \div NumSpectra) + 1]
                              [(p % NumSpectra) + 2]

(* C5 as amended: the sli holds only the spectra, spectrum by spectrum:
   position p (0-based) is band (p mod B)+1 of spectrum (p div B)+1. *)
C5_SliSpectrumMajor ==
    IsWritten(output_sli) =>
        /\ Len(files[output_sli]) = nb * NumSpectra
        /\ \A p \in 0..(Len(files[output_sli]) - 1) :
              files[output_sli][p + 1] =
                  output_array[(p % nb) + 1][(p \div nb) + 2]

(* An sli of several spectra whose second value is band 2 of spectrum 1,
   not band 1 of spectrum 2 *)
C5_Witness ==
    /\ IsWritten(output_sli)
    /\ NumSpectra >= 2 /\ nb >= 2
    /\ files[output_sli][2] = output_array[2][2]
    /\ files[output_sli][2] # output_array[1][3]

(* C6: the hdr declares samples = bands per spectrum, lines = number of
   spectra written to the sli (n_bundles in the canopy script,
   n_bundles * n_atmospheres in the soil script), bands = 1,
   header offset 0 and interleave bsq. *)
C6_HdrDeclaresLayout ==
    IsWritten(output_hdr) =>
        /\ files[output_hdr].samples = Len(output_array)
        /\ files[output_hdr].samples = nb
        /\ IsWritten(output_sli)
        /\ files[output_hdr].lines * files[output_hdr].samples =
              Len(files[output_sli])
        /\ script = "canopy" => files[output_hdr].lines = n_bundles
        /\ script = "soil" =>
              files[output_hdr].lines = n_bundles * n_atmospheres
        /\ files[output_hdr].bands = 1
        /\ files[output_hdr].header_offset = 0
        /\ files[output_hdr].interleave = "bsq"

(* A soil hdr of a run with several atmospheres and several bundles *)
C6_Witness ==
    /\ script = "soil"
    /\ IsWritten(output_hdr)
    /\ n_atmospheres >= 2 /\ n_bundles >= 2
    /\ files[output_hdr].lines = n_bundles * n_atmospheres

(* Reading the sli with the layout of the hdr: sample b of line n *)
ReadSli(n, b) ==
    files[output_sli][((n - 1) * files[output_hdr].samples) + b]

(* C7: the value the hdr layout locates in the sli for band b of spectrum n
   is, up to the text formatting, the csv entry of wavelength b and
   spectrum n, for every b and n. *)
C7_RoundTrip ==
    IsWritten(output_hdr) =>
        \A n \in 1..files[output_hdr].lines :
            \A b \in 1..files[output_hdr].samples :
                /\ ((n - 1) * files[output_hdr].samples) + b
                      \in 1..Len(files[output_sli])
                /\ CsvText(ReadSli(n, b)) = files[output_csv][n + 1][b]

(* A canopy library of several spectra in which the csv text differs from
   the binary value, and in which bands and spectra differ *)
C7_Witness ==
    /\ script = "canopy"
    /\ IsWritten(output_hdr)
    /\ files[output_hdr].lines >= 2
    /\ ReadSli(1, 1) # files[output_csv][2][1]
    /\ ReadSli(1, 2) # ReadSli(2, 1)
    /\ ReadSli(1, 1) # ReadSli(2, 1)

(* The three spectral-library artifacts, in the order they were written *)
IsArtifact(name) == name \in {output_csv, output_sli, output_hdr}

ArtifactsWritten == SelectSeq(written, IsArtifact)

(* C8: no spectral-library artifact is written before the last model
   invocation has completed; a run that stops in the simulation loop has
   written none of them; they are written in the order csv, sli, hdr. *)
C8_ArtifactsAfterLoop ==
    /\ ArtifactsWritten # <<>> =>
          /\ Len(calls) = NumSpectra
          /\ \A c \in 1..NumSpectra : colWrites[c] = 1
          /\ AllSimulated
    /\ error = "SimulationError" => ArtifactsWritten = <<>>
    /\ pc = "sim" => ArtifactsWritten = <<>>
    /\ ArtifactsWritten \in {<<>>, <<output_csv>>, <<output_csv, output_sli>>,
                             <<output_csv, output_sli, output_hdr>>}

(* A run that stopped in its simulation loop after a completed invocation *)
C8_Witness ==
    /\ pc = "crashed" /\ error = "SimulationError"
    /\ Len(calls) >= 2
    /\ ArtifactsWritten = <<>>

(* C9: a failing model invocation does not end the run: the run goes on
   with the remaining bundles and writes a library without that column. *)
C9_RunContinuesAfterFailure ==
    error = "SimulationError" => pc # "crashed"

(* The sensor names the claim enumerates *)
EnumeratedSensors ==
    {"custom", "ali", "aster", "er2_mas", "gli", "landsat_etm",
     "landsat_mss", "landsat_oli", "landsat_tm", "meris", "modis", "polder",
     "spot_hrv", "spot_vgt", "vnir", "whole_range"}

(* C10: in the soil script a target_sensor outside the enumerated set ends
   the run with an error before any model invocation and before any file
   is written. *)
C10_UnsupportedSensorAborts ==
    (script = "soil" /\ target_sensor \notin EnumeratedSensors) =>
        /\ calls = <<>>
        /\ written = <<>>
        /\ pc \in {"atmospheres", "soils", "sensor", "crashed"}
        /\ pc = "crashed" => error \in {"OSError", "ValueError"}

(* The run of an unlisted sensor, ended by line 202 *)
C10_Witness ==
    /\ script = "soil"
    /\ target_sensor \notin EnumeratedSensors
    /\ pc = "crashed" /\ error = "OSError"

(* C11: a soil curve whose band_unit is neither the nanometer nor the
   micrometer tag makes the preprocessing fail, so no model invocation is
   made with such a curve. *)
C11_UnknownUnitNeverSimulated ==
    script = "soil" =>
        \A k \in 1..Len(calls) :
            calls[k].s.ground_reflectance.spectrum.band_unit
                \in {"Nanometers", "Micrometers"}

(* C12: no partial output is retained on a fatal path: when the soil run
   aborts during the simulation of an atmosphere, no output file of the run
   exists afterwards, the _atm_NN.sixs files of earlier atmospheres
   included. *)
C12_NoOutputAfterAbort ==
    (script = "soil" /\ pc = "crashed" /\ error = "SimulationError") =>
        /\ written = <<>>
        /\ DOMAIN files = {}

(* C13: in the canopy script the invocation for bundle j receives the solar
   and view angles sampled for bundle j. *)
C13_GeometryOfSameBundle ==
    script = "canopy" =>
        \A k \in 1..Len(calls) :
            /\ calls[k].s_za = s_za[k]
            /\ calls[k].s_az = s_az[k]
            /\ calls[k].v_za = v_za[k]
            /\ calls[k].v_az = v_az[k]

(* The number of model invocations that have returned *)
NumReturned ==
    IF error = "SimulationError" THEN Len(calls) - 1 ELSE Len(calls)

(* C14: the soil script invokes the model once per (atmosphere, bundle)
   pair, atmosphere outermost: the k-th invocation (0-based) is for
   atmosphere k div n_bundles and bundle k mod n_bundles and its spectrum is
   stored in column k+1; after the loop every column
   1..n_atmospheres*n_bundles has been written exactly once. *)
C14_RowMajorInvocations ==
    script = "soil" =>
        /\ \A k \in 0..(Len(calls) - 1) :
              /\ calls[k + 1].i = k \div n_bundles
              /\ calls[k + 1].j = k % n_bundles
        /\ \A k \in 0..(NumReturned - 1) :
              /\ colWrites[k + 1] = 1
              /\ \A r \in 1..nb :
                    output_array[r][k + 2] =
                        SixSResult(calls[k + 1].s, good_bands[r])
        /\ NumReturned > 0 =>
              \A c \in (NumReturned + 1)..(n_atmospheres * n_bundles) :
                  colWrites[c] = 0
        /\ AllSimulated => NumReturned = n_atmospheres * n_bundles

(* A finished soil loop over several atmospheres and several bundles *)
C14_Witness ==
    /\ script = "soil" /\ pc = "wl"
    /\ n_atmospheres >= 2 /\ n_bundles >= 2
    /\ Len(calls) = n_atmospheres * n_bundles
    /\ calls[n_bundles + 1].i = 1 /\ calls[n_bundles + 1].j = 0

(* C15: every spectrum stored in output_array has the wavelength axis
   written to column 0: the driver stores no two spectra with different
   axes, whatever the external model returns. *)
C15_SharedWavelengthAxis ==
    /\ Cardinality(storedAxes) <= 1
    /\ (AllSimulated /\ pc # "wl") =>
          storedAxes = {Column(output_array, 0)}

(* The sampling phase has ended: every parameter list holds n_bundles
   entries and the script is at the statement after the loop *)
SamplingDone ==
    /\ script = "canopy" /\ pc = "names"
    /\ \A list \in {N, chloro, caroten, brown, EWT, LMA, soil_reflectance,
                    LAI, hot_spot, LAD_inclination, LAD_bimodality,
                    s_az, s_za, v_az, v_za} : Len(list) = n_bundles
    /\ ~OutOfRange("chloro", Last(chloro))
    /\ ~OutOfRange("LAI", Last(LAI))

(* C16: when every Gaussian source eventually returns a value inside its
   interval, a canopy run that starts sampling reaches the end of the
   sampling phase, with exactly n_bundles entries in every parameter
   list. *)
C16_SamplingTerminates ==
    (script = "canopy" /\ pc = "sample" /\ Len(chloro) = 0) ~> SamplingDone

C16_Witness ==
    /\ SamplingDone
    /\ n_bundles >= 2
    /\ Len(calls) = 0

IsSixs(name) == \E k \in 0..(n_atmospheres - 1) : name = output_sixs(k)

(* The atmosphere parameters the script sampled for atmosphere k *)
AtmosphereOf(k) ==
    [aero_profile |-> aero_profile[aero_profile_ind[k + 1] + 1],
     atmos_profile |-> atmos_profile[atmos_profile_ind[k + 1] + 1],
     aot550 |-> aot[k + 1],
     geometry |-> [solar_a |-> solar_a[k + 1], solar_z |-> solar_z[k + 1],
                   view_a |-> view_a[k + 1], view_z |-> view_z[k + 1]]]

(* The atmosphere parameters a SixS object holds *)
AtmosphereIn(st) ==
    [aero_profile |-> st.aero_profile, atmos_profile |-> st.atmos_profile,
     aot550 |-> st.aot550, geometry |-> st.geometry]

InAtmosphereLoop == script = "soil" /\ pc \in {"atm", "sim", "sixs"}

AfterAtmosphereLoop ==
    /\ script = "soil"
    /\ \/ pc \in {"wl", "csv", "sli", "hdr", "done"}
       \/ pc = "crashed" /\ error = "NameError"

(* C17: the soil script writes one .sixs file per atmosphere, named by
   the atmosphere index and never rewritten; the file of atmosphere k
   exists exactly when the n_bundles invocations of atmosphere k have
   returned and before the model is set to atmosphere k + 1, and it holds
   the parameters every invocation of atmosphere k ran with; a run that
   leaves the atmosphere loop has written the n_atmospheres files in
   order. *)
C17_OneSixsFilePerAtmosphere ==
    script = "soil" =>
        /\ \A k \in 0..(n_atmospheres - 1) :
              IsWritten(output_sixs(k)) =>
                 /\ Cardinality({w \in 1..Len(written) :
                                    written[w] = output_sixs(k)}) = 1
                 /\ Cardinality({c \in 1..NumReturned :
                                    calls[c].i = k}) = n_bundles
                 /\ AtmosphereIn(files[output_sixs(k)]) = AtmosphereOf(k)
                 /\ \A c \in 1..Len(calls) :
                       calls[c].i = k =>
                          AtmosphereIn(calls[c].s) =
                             AtmosphereIn(files[output_sixs(k)])
                 /\ \A c \in 1..Len(calls) :
                       calls[c].i > k =>
                          AtmosphereIn(calls[c].s) = AtmosphereOf(calls[c].i)
        /\ InAtmosphereLoop =>
              \A k \in 0..(n_atmospheres - 1) :
                 IsWritten(output_sixs(k)) <=> k < i
        /\ (\E c \in 1..Len(calls) : TRUE) =>
              \A k \in 0..(n_atmospheres - 1) :
                 k < calls[Len(calls)].i => IsWritten(output_sixs(k))
        /\ AfterAtmosphereLoop =>
              SelectSeq(written, IsSixs) =
                 [k \in 1..n_atmospheres |-> output_sixs(k - 1)]

C17_Witness ==
    /\ script = "soil" /\ pc = "done"
    /\ n_atmospheres >= 2 /\ n_bundles >= 2
    /\ IsWritten(output_sixs(0)) /\ IsWritten(output_sixs(1))
    /\ files[output_sixs(0)].aero_profile # files[output_sixs(1)].aero_profile

(* C18: a written .hdr descriptor lists as many spectra names as it
   declares lines, in the canopy script and in the soil script. *)
C18_OneNamePerSpectrum ==
    IsWritten(output_hdr) =>
        Len(files[output_hdr].spectra_names) = files[output_hdr].lines

(* C19: the soil files of the bundles are n_bundles pairwise distinct
   entries of soil_files, chosen before the first invocation; the
   invocation of bundle j reads soil_spectra[j] under every atmosphere;
   with more bundles than listed files the run stops with no
   invocation. *)
C19_SoilsSampledOnceWithoutReplacement ==
    script = "soil" =>
        /\ pc \in {"atmospheres", "soils"} =>
              (calls = <<>> /\ soil_spectra = <<>>)
        /\ soil_spectra # <<>> =>
              /\ Len(soil_spectra) = n_bundles
              /\ \A a \in 1..n_bundles :
                    \E f \in 1..Len(soil_files) :
                       soil_spectra[a] = soil_files[f]
              /\ \A a, b \in 1..n_bundles :
                    a # b => soil_spectra[a] # soil_spectra[b]
        /\ \A c \in 1..Len(calls) :
              /\ soil_spectra # <<>>
              /\ calls[c].s.ground_reflectance.soil_file =
                    soil_spectra[calls[c].j + 1]
        /\ \A c, d \in 1..Len(calls) :
              calls[c].j = calls[d].j =>
                 calls[c].s.ground_reflectance.soil_file =
                    calls[d].s.ground_reflectance.soil_file
        /\ n_bundles > Len(soil_files) =>
              /\ calls = <<>>
              /\ soil_spectra = <<>>
              /\ pc \in {"atmospheres", "soils", "crashed"}
              /\ pc = "crashed" => error = "ValueError"

C19_Witness ==
    /\ script = "soil" /\ pc = "done"
    /\ n_atmospheres >= 2 /\ n_bundles >= 2
    /\ Len(calls) = n_atmospheres * n_bundles
    /\ soil_spectra[1] > soil_spectra[2]
    /\ calls[1].s.ground_reflectance.soil_file =
          calls[n_bundles + 1].s.ground_reflectance.soil_file

(* C20: the classifier run raises no NameError: every model a predict
   statement is about to use was bound by an earlier statement, and a run
   that ends has written both CSVs. *)
C20_ModelsUsedAreLoaded ==
    script = "classify" =>
        /\ error # "NameError"
        /\ (pc = "run" /\ stmt \in PredictStatements) =>
              ModelUsed(stmt) \subseteq bound
        /\ pc \in {"done", "crashed"} =>
              /\ IsWritten(FileName(pred_spp, 0))
              /\ IsWritten(FileName(pred_gen, 0))

====
